---- MODULE Spec2Model ----
(***************************************************************************)
(* secure_join(rootfs, unsafe_path) of src/src/secure_join.rs, together    *)
(* with the parts of std::path and of the POSIX filesystem it relies on.   *)
(*                                                                         *)
(* A path string is a sequence of tokens: the separator "/" or a name      *)
(* (".", ".." or any other text without a separator).  Two names are never *)
(* adjacent, so concatenating token sequences is concatenating the bytes.  *)
(***************************************************************************)
EXTENDS Integers, Sequences, FiniteSets, TLC

VARIABLES rootfs, unsafe_path, fs, path, comps, inner, pc, call, first,
          result, metLink

vars == <<rootfs, unsafe_path, fs, path, comps, inner, pc, call, first,
          result, metLink>>

\* Longest untrusted path, in components, that Init enumerates.
MaxComps == 3

\* Symbolic links one path walk may follow before it fails with ELOOP (the
\* kernel allows 40; no walk of these filesystems that ends follows as many
\* as this bound).
MaxFollow == 8

Sep == "/"
CurDir == "."
ParentDir == ".."

\* A name whose bytes are not valid UTF-8 (the single byte 0xFF).
NonUtf8 == {"<FF>"}

(***************************************************************************)
(* std::path                                                               *)
(***************************************************************************)

\* Path::has_root, which on Unix is also Path::is_absolute.
HasRoot(s) == Len(s) > 0 /\ s[1] = Sep

\* Components::include_cur_dir: a leading "." of a path without a root.
IncludeCurDir(s) == ~HasRoot(s) /\ Len(s) > 0 /\ s[1] = CurDir

\* Components::len_before_body.
LenBeforeBody(s) == IF HasRoot(s) \/ IncludeCurDir(s) THEN 1 ELSE 0

\* Components::parse_single_component: "" and "." yield no component.
IsComponent(t) == t # Sep /\ t # CurDir

\* Path::components / Path::iter: the root marker or the leading ".", then
\* the body with empty segments and "." dropped.
Components(s) ==
  (IF HasRoot(s) THEN <<Sep>> ELSE IF IncludeCurDir(s) THEN <<CurDir>> ELSE <<>>)
  \o SelectSeq(SubSeq(s, LenBeforeBody(s) + 1, Len(s)), IsComponent)

\* PathBuf::push on Unix.
Push(p, it) ==
  IF HasRoot(it) THEN it
  ELSE IF Len(p) > 0 /\ p[Len(p)] # Sep THEN p \o <<Sep>> \o it
  ELSE p \o it

\* Components::trim_right: drop trailing empty and "." segments of the body.
RECURSIVE TrimRight(_, _)
TrimRight(s, b) ==
  IF Len(s) > b /\ ~IsComponent(s[Len(s)])
  THEN TrimRight(SubSeq(s, 1, Len(s) - 1), b)
  ELSE s

\* Index of the last component of the body, 0 when the body has none.
LastComponent(s) ==
  LET I == {i \in (LenBeforeBody(s) + 1)..Len(s) : IsComponent(s[i])}
  IN IF I = {} THEN 0 ELSE CHOOSE i \in I : \A j \in I : j <= i

\* PathBuf::pop: truncate to Path::parent, unchanged when there is none.
Pop(p) ==
  LET b == LenBeforeBody(p)
      j == LastComponent(p)
  IN IF j > 0
     THEN TrimRight(SubSeq(p, 1, IF j - 1 > b THEN j - 2 ELSE j - 1), b)
     ELSE IF IncludeCurDir(p) THEN <<>> ELSE p

IsPrefixSeq(a, b) == Len(a) <= Len(b) /\ SubSeq(b, 1, Len(a)) = a

IsSuffixSeq(a, b) ==
  Len(a) <= Len(b) /\ SubSeq(b, Len(b) - Len(a) + 1, Len(b)) = a

\* Path::starts_with: component-wise prefix.
StartsWith(p, base) == IsPrefixSeq(Components(base), Components(p))

\* Path::ends_with: component-wise suffix.
EndsWith(p, child) == IsSuffixSeq(Components(child), Components(p))

\* OsStr::to_str / Path::to_str succeeds only on valid UTF-8.
ToStrOk(p) == \A i \in 1..Len(p) : p[i] \notin NonUtf8

(***************************************************************************)
(* The filesystem: a node is named by its canonical location, the sequence *)
(* of names from "/".  A directory of kind "locked" has no search          *)
(* permission: it exists, and nothing can be looked up through it.  A node *)
(* of kind "magic" is a link of the /proc/<pid>/fd kind to an open pipe:   *)
(* the kernel follows it to the pipe itself, and the text readlink(2)      *)
(* returns for it names nothing.                                           *)
(***************************************************************************)

Node(k) == [kind |-> k, target |-> <<>>]
Link(t) == [kind |-> "link", target |-> t]
Magic(t) == [kind |-> "magic", target |-> t]

\* The open pipe behind the magic link: no path names it (no name is empty).
Pipe == <<"", "pipe">>

\* /r is the container rootfs; /o lies outside it; /s is another name of /r;
\* /r/g is a magic link to the pipe.
Tree(lt, mt, ak) ==
  (<<>> :> Node("dir")) @@ (<<"r">> :> Node("dir")) @@ (<<"o">> :> Node("dir"))
  @@ (<<"r", "a">> :> Node(ak))
  @@ (<<"r", "l">> :> Link(lt)) @@ (<<"r", "m">> :> Link(mt))
  @@ (<<"l">> :> Link(<<"o">>)) @@ (<<"s">> :> Link(<<"r">>))
  @@ (<<"r", "g">> :> Magic(<<"pipe:[1]">>)) @@ (Pipe :> Node("file"))

\* <<target of /r/l, target of /r/m, kind of /r/a>>
Layouts ==
  { <<<<"..", "/", "..", "/", "..", "/">>, <<"a">>, "dir">>,
    <<<<"/", "dddd">>, <<"a">>, "dir">>,
    <<<<"/">>, <<"a">>, "dir">>,
    <<<<"/", "..", "/", "o">>, <<"a">>, "dir">>,
    <<<<"/", "..", "/", ".">>, <<"a">>, "dir">>,
    <<<<"/", "m">>, <<"..", "/", "o">>, "dir">>,
    <<<<"m">>, <<"/", "o">>, "dir">>,
    <<<<"a", "/", "..">>, <<"a">>, "dir">>,
    <<<<"a", "/", "..">>, <<"a">>, "locked">>,
    <<<<".", "/", "a", "/", "m">>, <<"a">>, "file">>,
    <<<<"x", "/", "..", "/", "..", "/", "o">>, <<"a">>, "dir">>,
    <<<<"l">>, <<"a">>, "dir">>,
    <<<<"g">>, <<"a">>, "dir">>,
    <<<<"/", "<FF>">>, <<"a">>, "dir">>,
    <<<<"<FF>">>, <<"a">>, "dir">> }

FileSystems == { Tree(c[1], c[2], c[3]) : c \in Layouts }

\* The working directory of the process.
Cwd == <<>>

Failed == [ok |-> FALSE, node |-> <<>>]
Found(n) == [ok |-> TRUE, node |-> n]

\* A token other than the separator.
IsName(t) == t # Sep

\* The segments the kernel walks: every name of the path, then the marker
\* "/" when the path ends in a separator (its last name must be a directory).
Segs(s) ==
  SelectSeq(s, IsName)
  \o (IF Len(s) > 0 /\ s[Len(s)] = Sep /\ (\E i \in 1..Len(s) : s[i] # Sep)
      THEN <<Sep>> ELSE <<>>)

\* The walk can take the segment c at w.cur: w.cur is a directory open to
\* search, or a directory closed to search when realpath(3) takes "." or
\* ".." (it checks that w.cur is a directory and looks nothing up in it).
Passable(f, w, c) ==
  \/ f[w.cur].kind = "dir"
  \/ w.byText /\ c \in {CurDir, ParentDir} /\ f[w.cur].kind = "locked"

\* One step of a path walk, at directory w.cur with the segments w.segs
\* left: "." stays, ".." goes to the parent ("/" is its own parent), a name
\* is looked up in w.cur, and a symbolic link is followed unless it is the
\* last segment and followLast is false.  w.fuel counts the links that may
\* still be followed before the walk fails with ELOOP.  The kernel follows
\* a magic link to its object; realpath(3) (w.byText) follows every link by
\* the text readlink(2) returns for it, and takes "." and ".." on the text
\* of the path resolved so far, which needs a directory and no search
\* permission in it.
WalkStep(f, w, followLast) ==
  LET c == Head(w.segs)
      rest == Tail(w.segs)
      n == Append(w.cur, c)
      stop == [w EXCEPT !.failed = TRUE]
  IN CASE c = Sep ->
            IF f[w.cur].kind \in {"dir", "locked"}
            THEN [w EXCEPT !.segs = rest] ELSE stop
       [] c # Sep /\ ~Passable(f, w, c) -> stop
       [] c = CurDir /\ Passable(f, w, c) -> [w EXCEPT !.segs = rest]
       [] c = ParentDir /\ Passable(f, w, c) ->
            [w EXCEPT !.cur = SubSeq(w.cur, 1, Len(w.cur) - 1), !.segs = rest]
       [] OTHER ->
            IF n \notin DOMAIN f THEN stop
            ELSE IF f[n].kind = "magic" /\ (rest # <<>> \/ followLast)
                    /\ ~w.byText
            THEN (IF w.fuel = 0 THEN stop
                  ELSE [w EXCEPT !.cur = Pipe, !.segs = rest,
                                 !.fuel = w.fuel - 1])
            ELSE IF f[n].kind \in {"link", "magic"}
                    /\ (rest # <<>> \/ followLast)
            THEN (IF w.fuel = 0 THEN stop
                  ELSE [w EXCEPT !.cur = IF HasRoot(f[n].target) THEN <<>> ELSE w.cur,
                                 !.segs = Segs(f[n].target) \o rest,
                                 !.fuel = w.fuel - 1])
            ELSE [w EXCEPT !.cur = n, !.segs = rest]

\* The walk to its end: the node reached, or failure.
RECURSIVE Walk(_, _, _)
Walk(f, w, followLast) ==
  IF w.failed THEN Failed
  ELSE IF w.segs = <<>> THEN Found(w.cur)
  ELSE Walk(f, WalkStep(f, w, followLast), followLast)

\* Where a walk of p starts.
WalkStart(p, byText) ==
  [cur |-> IF HasRoot(p) THEN <<>> ELSE Cwd, segs |-> Segs(p),
   fuel |-> MaxFollow, failed |-> FALSE, byText |-> byText]

\* Path resolution as stat(2) (followLast) or lstat(2)/readlink(2) do it.
Resolve(f, p, followLast) ==
  IF p = <<>> THEN Failed ELSE Walk(f, WalkStart(p, FALSE), followLast)

\* Path resolution as realpath(3) does it.
RealPath(f, p) ==
  IF p = <<>> THEN Failed ELSE Walk(f, WalkStart(p, TRUE), TRUE)

\* Path::read_link: Ok(target text) when the path names a symbolic link.
ReadLink(f, p) ==
  LET r == Resolve(f, p, FALSE)
  IN IF r.ok /\ f[r.node].kind \in {"link", "magic"}
     THEN [ok |-> TRUE, v |-> f[r.node].target]
     ELSE [ok |-> FALSE, v |-> <<>>]

\* Path::exists: the metadata query succeeds.
Exists(f, p) == Resolve(f, p, TRUE).ok

\* The text of a canonical location.
RECURSIVE NodeText(_)
NodeText(n) ==
  IF n = <<>> THEN <<>> ELSE NodeText(SubSeq(n, 1, Len(n) - 1)) \o <<Sep, n[Len(n)]>>

\* Path::canonicalize: Ok(the canonical text) when realpath(3) succeeds,
\* Err otherwise.  It is Err for a path that Exists reports present when the
\* path leads through a magic link.
Canonicalize(f, p) ==
  LET r == RealPath(f, p)
  IN IF ~r.ok THEN [ok |-> FALSE, path |-> <<>>]
     ELSE [ok |-> TRUE,
           path |-> IF r.node = <<>> THEN <<Sep>> ELSE NodeText(r.node)]

(***************************************************************************)
(* Inputs                                                                  *)
(***************************************************************************)

\* rootfs: the existing canonical /r, the empty string, a missing directory,
\* a relative name of /r, /r with a trailing separator, and the link /s.
Roots ==
  { <<"/", "r">>, <<>>, <<"/", "nx">>, <<"r">>, <<"/", "r", "/">>, <<"/", "s">> }

Alphabet == {ParentDir, CurDir, "a", "l"}

\* The components joined by single separators.
RECURSIVE JoinComps(_)
JoinComps(cs) ==
  IF cs = <<>> THEN <<>>
  ELSE IF Len(cs) = 1 THEN cs
  ELSE <<cs[1], Sep>> \o JoinComps(Tail(cs))

\* Every relative path of at most MaxComps components, and three paths with
\* a root marker, repeated separators, an inner "." and a trailing separator.
UntrustedInputs ==
  { JoinComps(cs) : cs \in UNION { [1..n -> Alphabet] : n \in 0..MaxComps } }
  \cup { <<"/", "l">>,
         <<"a", "/", "/", ".", "/", "l", "/">>,
         <<"/", "/", "a", "/", "..", "/">> }

(***************************************************************************)
(* secure_join, one action per branch of its loop body.                    *)
(*   pc = "loop"    at the head of the outer for loop                      *)
(*   pc = "inner"   inside the loop over the components of a relative link *)
(*   pc = "dotdot"  before the test of line 42                             *)
(*   pc = "done"    returned; result holds the string                      *)
(*   pc = "panic"   an unwrap() failed (line 27, 33 or 47)                 *)
(* metLink records whether a read_link has succeeded during this call.     *)
(* call tells the calls apart: the first one, then a second call on the    *)
(* same filesystem with the first result or with "/" ++ unsafe_path.       *)
(***************************************************************************)

\* InitialPath without the separator of line 13.
InitialPathBare(root) == root

\* Lines 13-14: the working path is rootfs followed by one separator.
InitialPath(root) == root \o <<Sep>>

Init ==
  /\ rootfs \in Roots
  /\ unsafe_path \in UntrustedInputs
  /\ fs \in FileSystems
  /\ path = InitialPath(rootfs)
  /\ comps = Components(unsafe_path)
  /\ inner = <<>>
  /\ pc = "loop"
  /\ call = "first"
  /\ first = <<>>
  /\ result = <<>>
  /\ metLink = FALSE

\* SkipRoot without the test of line 20: the root component is pushed, and
\* PathBuf::push replaces the working path by it.
SkipRootPushed ==
  /\ pc = "loop" /\ comps # <<>>
  /\ HasRoot(<<Head(comps)>>)
  /\ path' = Push(path, <<Head(comps)>>)
  /\ comps' = Tail(comps)
  /\ UNCHANGED <<rootfs, unsafe_path, fs, inner, pc, call, first, result,
                 metLink>>

\* Lines 20-22: a component with a root is skipped.
SkipRoot ==
  /\ pc = "loop" /\ comps # <<>>
  /\ HasRoot(<<Head(comps)>>)
  /\ comps' = Tail(comps)
  /\ UNCHANGED <<rootfs, unsafe_path, fs, path, inner, pc, call, first,
                 result, metLink>>

\* Lines 24-25: the component is appended and read_link fails.
PushPlain ==
  /\ pc = "loop" /\ comps # <<>>
  /\ ~HasRoot(<<Head(comps)>>)
  /\ ~ReadLink(fs, Push(path, <<Head(comps)>>)).ok
  /\ path' = Push(path, <<Head(comps)>>)
  /\ comps' = Tail(comps)
  /\ pc' = "dotdot"
  /\ UNCHANGED <<rootfs, unsafe_path, fs, inner, call, first, result, metLink>>

\* Reclamp by PathBuf::push, which an absolute target replaces outright.
ReclampJoined(root, v) == Push(root, v)

\* Line 27: the working path after an absolute link target v.
Reclamp(root, v) == root \o v

\* Lines 24-27: the appended path is a link with an absolute target.
AbsoluteLink ==
  /\ pc = "loop" /\ comps # <<>>
  /\ ~HasRoot(<<Head(comps)>>)
  /\ LET r == ReadLink(fs, Push(path, <<Head(comps)>>))
     IN /\ r.ok /\ HasRoot(r.v)
        /\ IF ToStrOk(r.v)
           THEN path' = Reclamp(rootfs, r.v) /\ pc' = "dotdot"
           ELSE path' = Push(path, <<Head(comps)>>) /\ pc' = "panic"
  /\ comps' = Tail(comps)
  /\ metLink' = TRUE
  /\ UNCHANGED <<rootfs, unsafe_path, fs, inner, call, first, result>>

\* Lines 24-30: the appended path is a link with a relative target.
RelativeLink ==
  /\ pc = "loop" /\ comps # <<>>
  /\ ~HasRoot(<<Head(comps)>>)
  /\ LET r == ReadLink(fs, Push(path, <<Head(comps)>>))
     IN /\ r.ok /\ ~HasRoot(r.v)
        /\ path' = Pop(Push(path, <<Head(comps)>>))
        /\ inner' = Components(r.v)
  /\ comps' = Tail(comps)
  /\ pc' = "inner"
  /\ metLink' = TRUE
  /\ UNCHANGED <<rootfs, unsafe_path, fs, call, first, result>>

\* Where the inner loop goes after one component.
AfterInner(rest) == IF rest = <<>> THEN "dotdot" ELSE "inner"

\* Clamp without the containment test of line 34.
ClampUnchecked(f, root, p) == Canonicalize(f, p).path

\* Lines 33-36, canonicalize having returned Ok: the canonical form, or
\* rootfs when that is not below rootfs.
Clamp(f, root, p) ==
  IF StartsWith(Canonicalize(f, p).path, root)
  THEN Canonicalize(f, p).path ELSE root

\* Lines 31-32: a component of the target is appended; the path is missing.
InnerMissing ==
  /\ pc = "inner" /\ inner # <<>>
  /\ ~Exists(fs, Push(path, <<Head(inner)>>))
  /\ path' = Push(path, <<Head(inner)>>)
  /\ inner' = Tail(inner)
  /\ pc' = AfterInner(Tail(inner))
  /\ UNCHANGED <<rootfs, unsafe_path, fs, comps, call, first, result, metLink>>

\* InnerUnwrapFails with the Err of canonicalize matched like the Err of
\* read_link, not unwrapped: the appended path is kept and the loop goes on.
InnerUnwrapSkipped ==
  /\ pc = "inner" /\ inner # <<>>
  /\ Exists(fs, Push(path, <<Head(inner)>>))
  /\ ~Canonicalize(fs, Push(path, <<Head(inner)>>)).ok
  /\ path' = Push(path, <<Head(inner)>>)
  /\ inner' = Tail(inner)
  /\ pc' = AfterInner(Tail(inner))
  /\ UNCHANGED <<rootfs, unsafe_path, fs, comps, call, first, result, metLink>>

\* Lines 31-33: the path exists and canonicalize returns Err: the unwrap
\* of line 33 panics with the appended path as the working path.
InnerUnwrapFails ==
  /\ pc = "inner" /\ inner # <<>>
  /\ Exists(fs, Push(path, <<Head(inner)>>))
  /\ ~Canonicalize(fs, Push(path, <<Head(inner)>>)).ok
  /\ path' = Push(path, <<Head(inner)>>)
  /\ pc' = "panic"
  /\ UNCHANGED <<rootfs, unsafe_path, fs, comps, inner, call, first, result,
                 metLink>>

\* Lines 31-34: the path exists, canonicalize returns Ok and the canonical
\* form is below rootfs.
InnerContained ==
  /\ pc = "inner" /\ inner # <<>>
  /\ Exists(fs, Push(path, <<Head(inner)>>))
  /\ Canonicalize(fs, Push(path, <<Head(inner)>>)).ok
  /\ StartsWith(Canonicalize(fs, Push(path, <<Head(inner)>>)).path, rootfs)
  /\ path' = Clamp(fs, rootfs, Push(path, <<Head(inner)>>))
  /\ inner' = Tail(inner)
  /\ pc' = AfterInner(Tail(inner))
  /\ UNCHANGED <<rootfs, unsafe_path, fs, comps, call, first, result, metLink>>

\* Lines 31-36: the path exists, canonicalize returns Ok and the canonical
\* form is not below rootfs.
InnerEscape ==
  /\ pc = "inner" /\ inner # <<>>
  /\ Exists(fs, Push(path, <<Head(inner)>>))
  /\ Canonicalize(fs, Push(path, <<Head(inner)>>)).ok
  /\ ~StartsWith(Canonicalize(fs, Push(path, <<Head(inner)>>)).path, rootfs)
  /\ path' = Clamp(fs, rootfs, Push(path, <<Head(inner)>>))
  /\ inner' = Tail(inner)
  /\ pc' = AfterInner(Tail(inner))
  /\ UNCHANGED <<rootfs, unsafe_path, fs, comps, call, first, result, metLink>>

\* SkipDotDot without the pop of line 43.
SkipDotDotKept ==
  /\ pc = "dotdot"
  /\ EndsWith(path, <<ParentDir>>)
  /\ pc' = "loop"
  /\ UNCHANGED <<rootfs, unsafe_path, fs, path, comps, inner, call, first,
                 result, metLink>>

\* Lines 42-44: a trailing ".." is popped.
SkipDotDot ==
  /\ pc = "dotdot"
  /\ EndsWith(path, <<ParentDir>>)
  /\ path' = Pop(path)
  /\ pc' = "loop"
  /\ UNCHANGED <<rootfs, unsafe_path, fs, comps, inner, call, first, result,
                 metLink>>

\* Line 42: the working path does not end with "..".
KeepTail ==
  /\ pc = "dotdot"
  /\ ~EndsWith(path, <<ParentDir>>)
  /\ pc' = "loop"
  /\ UNCHANGED <<rootfs, unsafe_path, fs, path, comps, inner, call, first,
                 result, metLink>>

\* Line 47: the working path is returned as a string.
Return ==
  /\ pc = "loop" /\ comps = <<>>
  /\ IF ToStrOk(path)
     THEN result' = path /\ pc' = "done"
     ELSE result' = result /\ pc' = "panic"
  /\ UNCHANGED <<rootfs, unsafe_path, fs, path, comps, inner, call, first,
                 metLink>>

\* A further call secure_join(rootfs, p) on the same filesystem.
Enter(p, kind) ==
  /\ pc = "done" /\ call = "first"
  /\ first' = result
  /\ unsafe_path' = p
  /\ path' = InitialPath(rootfs)
  /\ comps' = Components(p)
  /\ inner' = <<>>
  /\ pc' = "loop"
  /\ call' = kind
  /\ result' = <<>>
  /\ metLink' = FALSE
  /\ UNCHANGED <<rootfs, fs>>

\* The caller resolves the returned string again.
Reresolve == Enter(result, "again")

\* The caller resolves the same untrusted path with a root marker in front.
ResolveRooted == Enter(<<Sep>> \o unsafe_path, "rooted")

Next ==
  \/ SkipRoot
  \/ PushPlain
  \/ AbsoluteLink
  \/ RelativeLink
  \/ InnerMissing
  \/ InnerUnwrapFails
  \/ InnerContained
  \/ InnerEscape
  \/ SkipDotDot
  \/ KeepTail
  \/ Return
  \/ Reresolve
  \/ ResolveRooted

Spec == Init /\ [][Next]_vars

(***************************************************************************)
(* Vocabulary of the properties                                            *)
(***************************************************************************)

\* The plain names of a path: its tokens other than "/", "." and "..".
IsPlain(t) == t \notin {Sep, CurDir, ParentDir}
PlainNames(s) == SelectSeq(s, IsPlain)

\* root followed by a separator and a name, for each name in order.
RECURSIVE LexJoin(_, _)
LexJoin(root, names) ==
  IF names = <<>> THEN root
  ELSE LexJoin(root \o <<Sep, Head(names)>>, Tail(names))

\* The components of a path without its root marker.
Relative(p) == SelectSeq(Components(p), IsName)

\* The last token of a string that is neither a separator nor ".".
LastName(s) ==
  LET I == {i \in 1..Len(s) : s[i] \notin {Sep, CurDir}}
  IN IF I = {} THEN "" ELSE s[CHOOSE i \in I : \A j \in I : j <= i]

\* rootfs is empty or ends in a name, not in a separator.
BareRoot == rootfs = <<>> \/ rootfs[Len(rootfs)] # Sep

\* rootfs is an existing directory given in canonical form.
CanonicalRoot ==
  /\ Exists(fs, rootfs)
  /\ Canonicalize(fs, rootfs).ok
  /\ Canonicalize(fs, rootfs).path = rootfs

\* The untrusted path is one component, and it names a symbolic link.
SingleLink ==
  /\ call = "first"
  /\ Len(Components(unsafe_path)) = 1
  /\ ~HasRoot(unsafe_path)
  /\ ReadLink(fs, Push(InitialPath(rootfs), Components(unsafe_path))).ok

\* The target text of that link.
SingleTarget == ReadLink(fs, Push(InitialPath(rootfs), Components(unsafe_path))).v

(***************************************************************************)
(* C1                                                                      *)
(***************************************************************************)

\* C1: when no symbolic link was met, an untrusted path made of "..", "."
\* and plain names resolves to rootfs joined by single separators with the
\* plain names in order, every ".." and "." being dropped.
C1_LexicalJoinDropsDots ==
  (/\ pc = "done" /\ call = "first" /\ ~metLink
   /\ BareRoot
   /\ ~HasRoot(unsafe_path)
   /\ PlainNames(unsafe_path) # <<>>)
  => result = LexJoin(rootfs, PlainNames(unsafe_path))

(***************************************************************************)
(* C2                                                                      *)
(***************************************************************************)

\* C2: the returned string has rootfs as a component-wise prefix and holds
\* no ".." component after that prefix.
C2_LexicallyBelowRoot ==
  pc = "done" =>
    /\ StartsWith(result, rootfs)
    /\ \A i \in (Len(Components(rootfs)) + 1)..Len(Components(result)) :
         Components(result)[i] # ParentDir

(***************************************************************************)
(* C3                                                                      *)
(***************************************************************************)

\* C3: with rootfs an existing directory in canonical form, a returned path
\* that exists has a canonical form below rootfs.
C3_PhysicallyBelowRoot ==
  (pc = "done" /\ CanonicalRoot /\ Exists(fs, result))
  => StartsWith(Canonicalize(fs, result).path, rootfs)

(***************************************************************************)
(* C4                                                                      *)
(***************************************************************************)

\* Every component of the relative target v leaves rootfs when appended to it.
LeavesAtEveryStep(v) ==
  \A i \in 1..Len(Components(v)) :
    LET p == Push(rootfs, <<Components(v)[i]>>)
    IN /\ Exists(fs, p)
       /\ Canonicalize(fs, p).ok
       /\ ~StartsWith(Canonicalize(fs, p).path, rootfs)

\* C4: after each component of a relative link target whose appended path
\* exists, the working path is the canonical form of that path and below
\* rootfs, or it is exactly rootfs (the step is not completed only when
\* canonicalize returns Err, and then it panics); and with a canonical
\* existing rootfs, a one-component untrusted path naming a link whose
\* relative target leaves rootfs at every step resolves to exactly rootfs.
C4_RelativeLinkClamped ==
  /\ [][(pc = "inner" /\ inner # <<>> /\ Exists(fs, Push(path, <<Head(inner)>>)))
        => \/ /\ Canonicalize(fs, Push(path, <<Head(inner)>>)).ok
              /\ path' = Canonicalize(fs, Push(path, <<Head(inner)>>)).path
              /\ StartsWith(path', rootfs)
              /\ pc' # "panic"
           \/ /\ Canonicalize(fs, Push(path, <<Head(inner)>>)).ok
              /\ path' = rootfs
              /\ pc' # "panic"
           \/ /\ ~Canonicalize(fs, Push(path, <<Head(inner)>>)).ok
              /\ pc' = "panic"]_vars
  /\ []((/\ pc = "done" /\ CanonicalRoot /\ SingleLink
         /\ ~HasRoot(SingleTarget) /\ LeavesAtEveryStep(SingleTarget))
        => result = rootfs)

\* The link /r/l -> "../../../" has been resolved under /r, giving /r.
C4_Witness ==
  /\ pc = "done" /\ call = "first"
  /\ rootfs = <<"/", "r">> /\ unsafe_path = <<"l">>
  /\ fs[<<"r", "l">>].target = <<"..", "/", "..", "/", "..", "/">>
  /\ result = <<"/", "r">>

(***************************************************************************)
(* C5                                                                      *)
(***************************************************************************)

\* C5: as stated, a one-component untrusted path naming a link whose absolute
\* target text t does not end in ".." resolves to rootfs ++ t byte for byte.
C5_TargetNotEndingInDotDot ==
  (/\ pc = "done" /\ SingleLink /\ HasRoot(SingleTarget)
   /\ SingleTarget[Len(SingleTarget)] # ParentDir)
  => result = Reclamp(rootfs, SingleTarget)

\* C5: as amended.  A link with an absolute target t replaces the working
\* path by the concatenation rootfs ++ t, whatever exists; and a
\* one-component untrusted path naming such a link resolves to rootfs ++ t
\* byte for byte when the last component of rootfs ++ t, trailing separators
\* and "." aside, is not "..", and to rootfs ++ t with that ".." popped when
\* it is.
C5_AbsoluteLinkPrefixed ==
  /\ [][(/\ pc = "loop" /\ comps # <<>> /\ ~HasRoot(<<Head(comps)>>)
         /\ ReadLink(fs, Push(path, <<Head(comps)>>)).ok
         /\ HasRoot(ReadLink(fs, Push(path, <<Head(comps)>>)).v)
         /\ ToStrOk(ReadLink(fs, Push(path, <<Head(comps)>>)).v))
        => path' = rootfs \o ReadLink(fs, Push(path, <<Head(comps)>>)).v]_vars
  /\ []((/\ pc = "done" /\ SingleLink /\ HasRoot(SingleTarget)
         /\ LastName(rootfs \o SingleTarget) # ParentDir)
        => result = rootfs \o SingleTarget)
  /\ []((/\ pc = "done" /\ SingleLink /\ HasRoot(SingleTarget)
         /\ LastName(rootfs \o SingleTarget) = ParentDir)
        => result = Pop(rootfs \o SingleTarget))

\* The link /r/l -> "/dddd", which does not exist, has given /r/dddd.
C5_Witness ==
  /\ pc = "done" /\ call = "first"
  /\ rootfs = <<"/", "r">> /\ unsafe_path = <<"l">>
  /\ fs[<<"r", "l">>].target = <<"/", "dddd">>
  /\ result = <<"/", "r", "/", "dddd">>

(***************************************************************************)
(* C6                                                                      *)
(***************************************************************************)

UnwrapFails27 ==
  /\ pc = "loop" /\ comps # <<>> /\ ~HasRoot(<<Head(comps)>>)
  /\ ReadLink(fs, Push(path, <<Head(comps)>>)).ok
  /\ HasRoot(ReadLink(fs, Push(path, <<Head(comps)>>)).v)
  /\ ~ToStrOk(ReadLink(fs, Push(path, <<Head(comps)>>)).v)

\* Line 33: the appended path exists and canonicalize returns Err.
UnwrapFails33 ==
  /\ pc = "inner" /\ inner # <<>>
  /\ Exists(fs, Push(path, <<Head(inner)>>))
  /\ ~Canonicalize(fs, Push(path, <<Head(inner)>>)).ok

\* Line 47: the final working path is not UTF-8.
UnwrapFails47 == pc = "loop" /\ comps = <<>> /\ ~ToStrOk(path)

NotParentDir(c) == c # ParentDir

\* What the walk yields when every query fails: rootfs and a separator when
\* the path has no component; otherwise rootfs followed by each component
\* other than "..", a leading "." that ".." follows being dropped with it.
LexicalResult(root, p) ==
  LET cs == Relative(p)
      rest == IF Len(cs) >= 2 /\ cs[1] = CurDir /\ cs[2] = ParentDir
              THEN Tail(cs) ELSE cs
  IN IF cs = <<>> THEN root \o <<Sep>>
     ELSE LexJoin(root, SelectSeq(rest, NotParentDir))

\* C7: as stated, when rootfs does not exist every symlink query made
\* during resolution fails.
C7_MissingRootMeetsNoLink == ~Exists(fs, rootfs) => ~metLink

\* C7: as amended.  When rootfs is not empty, ends in a plain name and does
\* not exist, no symlink query succeeds and the result is the lexical one.
C7_MissingRootIsLexical ==
  (/\ rootfs # <<>> /\ LastName(rootfs) = rootfs[Len(rootfs)]
   /\ LastName(rootfs) # ParentDir
   /\ ~Exists(fs, rootfs))
  => /\ ~metLink
     /\ pc = "done" => result = LexicalResult(rootfs, unsafe_path)

\* "../a/l" under the missing /nx has given /nx/a/l although /r/l is a link.
C7_Witness ==
  /\ pc = "done" /\ call = "first"
  /\ rootfs = <<"/", "nx">> /\ unsafe_path = <<"..", "/", "a", "/", "l">>
  /\ result = <<"/", "nx", "/", "a", "/", "l">>

(***************************************************************************)
(* C8                                                                      *)
(***************************************************************************)

\* C8: an empty untrusted path resolves to rootfs with one separator
\* appended, whatever rootfs is.
C8_EmptyUntrusted ==
  (pc = "done" /\ unsafe_path = <<>>) => result = rootfs \o <<Sep>>

\* rootfs = "" and untrusted = "" have given "/".
C8_Witness ==
  pc = "done" /\ rootfs = <<>> /\ unsafe_path = <<>> /\ result = <<Sep>>

(***************************************************************************)
(* C9                                                                      *)
(***************************************************************************)

\* The first result r holds no ".." and no link was met resolving it again.
ResolvedAgain ==
  /\ pc = "done" /\ call = "again" /\ ~metLink
  /\ \A i \in 1..Len(Components(first)) : Components(first)[i] # ParentDir

\* C9: as stated, resolving the result r again returns r.
C9_Idempotent == ResolvedAgain => result = first

\* C9: as amended.  Resolving r again puts r under rootfs once more: the
\* result is rootfs followed by each component of r (rootfs and a separator
\* when r has none), which is r itself when rootfs is empty and r is "/"
\* followed by its components joined by single separators, and is not r
\* when rootfs holds a plain name.
C9_ResolvedAgainUnderRoot ==
  ResolvedAgain =>
    /\ result = IF Relative(first) = <<>> THEN rootfs \o <<Sep>>
                ELSE LexJoin(rootfs, Relative(first))
    /\ (rootfs = <<>> /\ Relative(first) # <<>>
        /\ first = LexJoin(<<>>, Relative(first))) => result = first
    /\ PlainNames(rootfs) # <<>> => result # first

\* /r/a, the result for "a" under /r, has been resolved again to /r/r/a.
C9_Witness ==
  /\ pc = "done" /\ call = "again" /\ ~metLink
  /\ rootfs = <<"/", "r">>
  /\ first = <<"/", "r", "/", "a">>
  /\ result = <<"/", "r", "/", "r", "/", "a">>

(***************************************************************************)
(* C10                                                                     *)
(***************************************************************************)

\* C10: secure_join(rootfs, "/" ++ p) returns what secure_join(rootfs, p)
\* returned.
C10_RootMarkerChangesNothing ==
  (pc = "done" /\ call = "rooted") => result = first

====
